---------------------------- MODULE Spec2Model ----------------------------
(***************************************************************************)
(* Model of the blog post title override of the Learning TypeScript site:  *)
(* src/theme/BlogPostItem/Header/Title/index.js (BlogPostItemHeaderTitle). *)
(*                                                                         *)
(* Several instances of the component live on one page (a post page has    *)
(* one, a list view has one per post).  Each render of an instance reads   *)
(* the blog post context, computes the heading and, when the dependency    *)
(* `title` differs from the one of the previous commit, leaves an effect   *)
(* pending that writes document.title after the commit.                    *)
(*                                                                         *)
(* JavaScript strings are sequences of one-character strings; the          *)
(* character U+0060 is written Backtick.                                   *)
(***************************************************************************)
EXTENDS Naturals, Sequences, FiniteSets

\* Number of posts of PostPool the site publishes.
NumPosts == 8

\* The component instances on the page.
Instances == {1, 2}

\* The character U+0060.
Backtick == "BACKTICK"

\* The characters of a text that holds no backtick.
Chars(s) == [n \in 1..Len(s) |-> SubSeq(s, n, n)]

---------------------------------------------------------------------------
(* JavaScript values held by metadata.title *)

Str(chars) == [type |-> "string", chars |-> chars]

Undefined == [type |-> "undefined", chars |-> <<>>]

\* The literal of the comparison in the conditional expression of `title`.
SatisfiesLiteral ==
    Chars("The ") \o <<Backtick>> \o Chars("satisfies") \o <<Backtick>>
        \o Chars(" Operator")

\* The metadata of a post: useBlogPost().metadata, of which the component
\* reads title and permalink.
Metadata(rawTitle, permalink) == [title |-> rawTitle, permalink |-> permalink]

\* Posts to publish: an ordinary post, the post with the special-cased
\* title, posts whose titles differ from it in letter case, in whitespace and
\* in backticks only, a post with an empty title, one with no title, and
\* posts that share a title under different permalinks.
PostPool ==
    << Metadata(Str(Chars("Branded Types")), "/articles/branded-types"),
       Metadata(Str(SatisfiesLiteral), "/articles/the-satisfies-operator"),
       Metadata(Str(Chars("the ") \o <<Backtick>> \o Chars("satisfies")
                    \o <<Backtick>> \o Chars(" operator")),
                "/articles/lower-case"),
       Metadata(Str(Chars("The ") \o <<Backtick>> \o Chars("satisfies")
                    \o <<Backtick>> \o Chars("  Operator")),
                "/articles/two-spaces"),
       Metadata(Str(Chars("The satisfies Operator")), "/articles/no-backticks"),
       Metadata(Str(<<>>), "/articles/empty-title"),
       Metadata(Undefined, "/articles/no-title"),
       Metadata(Str(Chars("Branded Types")), "/archive/branded-types"),
       Metadata(Str(Chars("What is TypeScript?")),
                "/articles/what-is-typescript"),
       Metadata(Str(SatisfiesLiteral), "/archive/the-satisfies-operator") >>

Posts == { PostPool[n] : n \in 1..NumPosts }

\* The className prop; "" stands for an absent one.
ClassNames == {"", "margin-bottom--sm"}

\* What useBlogPost() and the props hand to one render.
Inputs ==
    [ metadata : Posts, isBlogPostPage : BOOLEAN, className : ClassNames ]

---------------------------------------------------------------------------
(* String.prototype.replace with a string pattern *)

\* The matches of pattern in s, as start positions.
Matches(s, pattern) ==
    { n \in 1..(Len(s) + 1) :
        /\ n + Len(pattern) - 1 <= Len(s)
        /\ SubSeq(s, n, n + Len(pattern) - 1) = pattern }

Min(S) == CHOOSE n \in S : \A m \in S : n <= m

\* s.replace(pattern, replacement): only the first match is replaced.
replace(s, pattern, replacement) ==
    IF Matches(s, pattern) = {}
    THEN s
    ELSE LET at == Min(Matches(s, pattern))
         IN  SubSeq(s, 1, at - 1) \o replacement
                 \o SubSeq(s, at + Len(pattern), Len(s))

---------------------------------------------------------------------------
(* Rendered nodes *)

Node(type, text, to, className, itemProp, children) ==
    [ type |-> type, text |-> text, to |-> to, className |-> className,
      itemProp |-> itemProp, children |-> children ]

Text(chars) == Node("#text", chars, "", "", "", <<>>)

\* No node: the instance is not mounted.
NoNode == Node("#none", <<>>, "", "", "", <<>>)

\* clsx(styles.title, className): the truthy class names joined by a space.
clsx(a, b) == IF b = "" THEN a ELSE a \o " " \o b

\* As title, with the comparison ignoring letter case.
titleIgnoringCase(rawTitle) ==
    IF rawTitle \in { Str(SatisfiesLiteral),
                      Str(Chars("the ") \o <<Backtick>> \o Chars("satisfies")
                              \o <<Backtick>> \o Chars(" operator")) }
    THEN [type |-> "element", chars |-> <<>>]
    ELSE rawTitle

\* As title, with the comparison made on the titles less their backticks.
titleIgnoringBackticks(rawTitle) ==
    IF rawTitle.type = "string"
          /\ SelectSeq(rawTitle.chars, LAMBDA c : c # Backtick)
                 = SelectSeq(SatisfiesLiteral, LAMBDA c : c # Backtick)
    THEN [type |-> "element", chars |-> <<>>]
    ELSE rawTitle

\* The value of the constant `title`: the fragment for the special-cased
\* title, the raw title otherwise.  "element" is the fragment; every
\* evaluation of the JSX expression creates a new object.
title(rawTitle) ==
    IF rawTitle = Str(SatisfiesLiteral)
    THEN [type |-> "element", chars |-> <<>>]
    ELSE rawTitle

\* As SatisfiesFragment, without the text after the code element.
SatisfiesFragmentNoSuffix ==
    << Text(Chars("The ")),
       Node("code", <<>>, "", "", "", << Text(Chars("satisfies")) >>) >>

\* The children of the fragment <>The <code>satisfies</code> operator</>.
SatisfiesFragment ==
    << Text(Chars("The ")),
       Node("code", <<>>, "", "", "", << Text(Chars("satisfies")) >>),
       Text(Chars(" operator")) >>

\* What a value renders to as a child: a fragment renders its children, a
\* string its text, undefined and the empty string nothing.
Children(value) ==
    IF value.type = "element" THEN SatisfiesFragment
    ELSE IF value.type = "string" /\ value.chars # <<>>
         THEN << Text(value.chars) >>
         ELSE <<>>

\* As TitleHeading, with the page flag ignored.
TitleHeadingAlwaysH2(isBlogPostPage) == "h2"

TitleHeading(isBlogPostPage) == IF isBlogPostPage THEN "h1" ELSE "h2"

\* <Link itemProp="url" to={permalink}>{title}</Link>
Link(permalink, children) == Node("Link", <<>>, permalink, "", "url", children)

\* As BlogPostItemHeaderTitle, with the link holding the raw title instead
\* of `title`.
BlogPostItemHeaderTitleRawInLink(in) ==
    Node( TitleHeading(in.isBlogPostPage), <<>>, "",
          clsx("title", in.className), "headline",
          IF in.isBlogPostPage
          THEN Children(title(in.metadata.title))
          ELSE << Link(in.metadata.permalink, Children(in.metadata.title)) >> )

\* As BlogPostItemHeaderTitle, with the link rendered on the post page too.
BlogPostItemHeaderTitleAlwaysLinked(in) ==
    Node( TitleHeading(in.isBlogPostPage), <<>>, "",
          clsx("title", in.className), "headline",
          << Link(in.metadata.permalink,
                  Children(title(in.metadata.title))) >> )

\* The element the component returns.
BlogPostItemHeaderTitle(in) ==
    Node( TitleHeading(in.isBlogPostPage), <<>>, "",
          clsx("title", in.className), "headline",
          IF in.isBlogPostPage
          THEN Children(title(in.metadata.title))
          ELSE << Link(in.metadata.permalink,
                       Children(title(in.metadata.title))) >> )

---------------------------------------------------------------------------
(* The hero section of the home page: src/theme/HeroSection/index.tsx *)

\* The site configurations useDocusaurusContext() may hand to HeroSection.
SiteConfigs ==
    [ title : {"Learning TypeScript", "Learning TypeScript (preview)", ""},
      tagline : {"Companion articles and projects", ""},
      baseUrl : {"/", "/learning-typescript/"} ]

\* The configuration the site starts with.
DefaultSiteConfig ==
    [ title |-> "Learning TypeScript",
      tagline |-> "Companion articles and projects", baseUrl |-> "/" ]

\* The alt text of the cover image.
HeroCoverAlt ==
    "Book cover: Learning TypeScript: Enhance Your Web Development Skills "
        \o "Using Type-Safe JavaScript"

HeroNode(type, className, text, alt, src, children) ==
    [ type |-> type, className |-> className, text |-> text, alt |-> alt,
      src |-> src, children |-> children ]

HeroText(text) == HeroNode("#text", "", text, "", "", <<>>)

\* As HeroSection, with the last words of the heading taken from the site
\* configuration.
HeroSectionFromConfig(config) ==
    HeroNode("section", "hero", "", "", "",
      << HeroNode("div", "left", "", "", "",
           << HeroNode("h1", "heading", "", "", "",
                << HeroText("Companion "),
                   HeroNode("span", "together", "", "", "",
                            << HeroText("projects") >>),
                   HeroText(" and articles for"),
                   HeroText(" "),
                   HeroNode("span", "together", "", "", "",
                            << HeroText(config.title) >>) >>),
              HeroNode("div", "author", "", "", "",
                       << HeroText("By Josh Goldberg") >>) >>),
         HeroNode("div", "cover", "", "", "",
           << HeroNode("img", "", "",
                HeroCoverAlt,
                "/img/cover.png", <<>>) >>) >>)

\* The element HeroSection returns; siteConfig is read and not used.
HeroSection(config) ==
    HeroNode("section", "hero", "", "", "",
      << HeroNode("div", "left", "", "", "",
           << HeroNode("h1", "heading", "", "", "",
                << HeroText("Companion "),
                   HeroNode("span", "together", "", "", "",
                            << HeroText("projects") >>),
                   HeroText(" and articles for"),
                   HeroText(" "),
                   HeroNode("span", "together", "", "", "",
                            << HeroText("Learning TypeScript") >>) >>),
              HeroNode("div", "author", "", "", "",
                       << HeroText("By Josh Goldberg") >>) >>),
         HeroNode("div", "cover", "", "", "",
           << HeroNode("img", "", "",
                HeroCoverAlt,
                "/img/cover.png", <<>>) >>) >>)

\* No hero section rendered yet.
NoHero ==
    [ rendered |-> FALSE, siteConfig |-> DefaultSiteConfig,
      output |-> HeroNode("#none", "", "", "", "", <<>>) ]

---------------------------------------------------------------------------
(* State *)

VARIABLES
    mounted,        \* mounted[i]: instance i is on the page
    props,          \* props[i]: the inputs of the last render of instance i
    output,         \* output[i]: the element the last render returned
    deps,           \* deps[i]: the dependency `title` of the last commit
    effect,         \* effect[i]: the effect the last commit left pending
    documentTitle,  \* document.title
    uncaughtError,  \* the error an effect raised, "none" if none
    siteConfig,     \* the site configuration of the Docusaurus context
    hero            \* the last render of HeroSection: what it read and returned

heroVars == << siteConfig, hero >>

vars ==
    << mounted, props, output, deps, effect, documentTitle, uncaughtError,
       siteConfig, hero >>

\* The inputs of an instance that has not rendered yet.
NoInputs ==
    [ metadata |-> Metadata(Undefined, ""), isBlogPostPage |-> FALSE,
      className |-> "" ]

\* No effect pending.
NoEffect == [scheduled |-> FALSE, rawTitle |-> Undefined, onMount |-> FALSE]

\* The effect closure of a render: it holds that render's rawTitle.  onMount
\* tells the effect of the first render from the one of a later render.
useEffect(rawTitle, onMount) ==
    [scheduled |-> TRUE, rawTitle |-> rawTitle, onMount |-> onMount]

\* As ObjectIs, for an effect declared without dependencies: no render
\* finds them unchanged.
ObjectIsNever(prev, next) == FALSE

\* Object.is on two dependency values, the second one just evaluated: strings
\* and undefined compare by value, a just created element is no earlier object.
ObjectIs(prev, next) ==
    /\ prev.type # "element"
    /\ next.type # "element"
    /\ prev = next

\* The title the page has before any instance writes it.
SiteTitle == Chars("Learning TypeScript")

Init ==
    /\ mounted = [i \in Instances |-> FALSE]
    /\ props = [i \in Instances |-> NoInputs]
    /\ output = [i \in Instances |-> NoNode]
    /\ deps = [i \in Instances |-> Undefined]
    /\ effect = [i \in Instances |-> NoEffect]
    /\ documentTitle = SiteTitle
    /\ uncaughtError = "none"
    /\ siteConfig = DefaultSiteConfig
    /\ hero = NoHero

---------------------------------------------------------------------------
(* Operations *)

\* The first render of instance i and its commit: the effect is always
\* left pending.
Mount(i, in) ==
    /\ uncaughtError = "none"
    /\ ~mounted[i]
    /\ mounted' = [mounted EXCEPT ![i] = TRUE]
    /\ props' = [props EXCEPT ![i] = in]
    /\ output' = [output EXCEPT ![i] = BlogPostItemHeaderTitle(in)]
    /\ deps' = [deps EXCEPT ![i] = title(in.metadata.title)]
    /\ effect' = [effect EXCEPT ![i] = useEffect(in.metadata.title, TRUE)]
    /\ UNCHANGED << documentTitle, uncaughtError, heroVars >>

\* As Update, with the element of the previous render kept when the raw
\* title is the one of the previous render.
UpdateKeepingOutput(i, in) ==
    /\ uncaughtError = "none"
    /\ mounted[i]
    /\ ~effect[i].scheduled
    /\ props' = [props EXCEPT ![i] = in]
    /\ output' = [output EXCEPT ![i] =
                    IF in.metadata.title = props[i].metadata.title
                    THEN output[i]
                    ELSE BlogPostItemHeaderTitle(in)]
    /\ deps' = [deps EXCEPT ![i] = title(in.metadata.title)]
    /\ effect' = [effect EXCEPT ![i] =
                    IF ObjectIs(deps[i], title(in.metadata.title))
                    THEN NoEffect
                    ELSE useEffect(in.metadata.title, FALSE)]
    /\ UNCHANGED << mounted, documentTitle, uncaughtError, heroVars >>

\* A later render of instance i and its commit: the effect is left pending
\* when the dependency `title` is not the one of the previous commit.  The
\* pending effects of an instance are flushed before it renders again.
Update(i, in) ==
    /\ uncaughtError = "none"
    /\ mounted[i]
    /\ ~effect[i].scheduled
    /\ props' = [props EXCEPT ![i] = in]
    /\ output' = [output EXCEPT ![i] = BlogPostItemHeaderTitle(in)]
    /\ deps' = [deps EXCEPT ![i] = title(in.metadata.title)]
    /\ effect' = [effect EXCEPT ![i] =
                    IF ObjectIs(deps[i], title(in.metadata.title))
                    THEN NoEffect
                    ELSE useEffect(in.metadata.title, FALSE)]
    /\ UNCHANGED << mounted, documentTitle, uncaughtError, heroVars >>

\* As EffectValue, with every backtick replaced.
EffectValueReplaceAll(rawTitle) ==
    SelectSeq(rawTitle.chars, LAMBDA c : c # Backtick)

\* As EffectValue, with a space as the pattern.
EffectValueSpacePattern(rawTitle) == replace(rawTitle.chars, <<" ">>, <<>>)

\* The value the effect assigns: rawTitle.replace("`", "").
EffectValue(rawTitle) == replace(rawTitle.chars, <<Backtick>>, <<>>)

\* As RunEffect, with the assignment guarded by `if (rawTitle)`: an empty
\* title is falsy and is not written.
RunEffectSkippingFalsy(i) ==
    /\ uncaughtError = "none"
    /\ effect[i].scheduled
    /\ documentTitle' =
           IF effect[i].rawTitle.type = "undefined"
                  \/ effect[i].rawTitle.chars = <<>>
           THEN documentTitle
           ELSE EffectValue(effect[i].rawTitle)
    /\ effect' = [effect EXCEPT ![i] = NoEffect]
    /\ UNCHANGED << mounted, props, output, deps, uncaughtError, heroVars >>

\* As RunEffect, with the stripped title also stored into metadata.title.
RunEffectWritingMetadata(i) ==
    /\ uncaughtError = "none"
    /\ effect[i].scheduled
    /\ IF effect[i].rawTitle.type = "undefined"
       THEN /\ uncaughtError' = "TypeError"
            /\ mounted' = [j \in Instances |-> FALSE]
            /\ output' = [j \in Instances |-> NoNode]
            /\ effect' = [j \in Instances |-> NoEffect]
            /\ UNCHANGED << props, deps, documentTitle >>
       ELSE /\ documentTitle' = EffectValue(effect[i].rawTitle)
            /\ props' = [props EXCEPT ![i].metadata.title =
                            Str(EffectValue(effect[i].rawTitle))]
            /\ effect' = [effect EXCEPT ![i] = NoEffect]
            /\ UNCHANGED << mounted, output, deps, uncaughtError >>
    /\ UNCHANGED heroVars

\* As RunEffect, with the assignment made on the post page only.
RunEffectOnPostPageOnly(i) ==
    /\ uncaughtError = "none"
    /\ effect[i].scheduled
    /\ IF effect[i].rawTitle.type = "undefined"
       THEN /\ uncaughtError' = "TypeError"
            /\ mounted' = [j \in Instances |-> FALSE]
            /\ output' = [j \in Instances |-> NoNode]
            /\ effect' = [j \in Instances |-> NoEffect]
            /\ UNCHANGED << props, deps, documentTitle >>
       ELSE /\ documentTitle' =
                   IF props[i].isBlogPostPage
                   THEN EffectValue(effect[i].rawTitle)
                   ELSE documentTitle
            /\ effect' = [effect EXCEPT ![i] = NoEffect]
            /\ UNCHANGED << mounted, props, output, deps, uncaughtError >>
    /\ UNCHANGED heroVars

\* The pending effect of instance i runs: document.title is assigned.
\* Reading .replace of undefined raises a TypeError instead; nothing catches
\* it, and the page's tree is unmounted.
RunEffect(i) ==
    /\ uncaughtError = "none"
    /\ effect[i].scheduled
    /\ IF effect[i].rawTitle.type = "undefined"
       THEN /\ uncaughtError' = "TypeError"
            /\ mounted' = [j \in Instances |-> FALSE]
            /\ output' = [j \in Instances |-> NoNode]
            /\ effect' = [j \in Instances |-> NoEffect]
            /\ UNCHANGED << props, deps, documentTitle >>
       ELSE /\ documentTitle' = EffectValue(effect[i].rawTitle)
            /\ effect' = [effect EXCEPT ![i] = NoEffect]
            /\ UNCHANGED << mounted, props, output, deps, uncaughtError >>
    /\ UNCHANGED heroVars

Next ==
    \/ \E i \in Instances, in \in Inputs : Mount(i, in)
    \/ \E i \in Instances, in \in Inputs : Update(i, in)
    \/ \E i \in Instances : RunEffect(i)

\* The blog pages: the instances of BlogPostItemHeaderTitle.
Spec == Init /\ [][Next]_vars

\* The variables of the blog pages.
blogVars ==
    << mounted, props, output, deps, effect, documentTitle, uncaughtError >>

\* HeroSection renders: it reads the site configuration of the context and
\* returns its element.
RenderHero ==
    /\ hero' = [ rendered |-> TRUE, siteConfig |-> siteConfig,
                 output |-> HeroSection(siteConfig) ]
    /\ UNCHANGED << siteConfig, blogVars >>

\* The site is built with another configuration.
SetSiteConfig(config) ==
    /\ siteConfig' = config
    /\ UNCHANGED << hero, blogVars >>

HeroNext ==
    \/ RenderHero
    \/ \E config \in SiteConfigs : SetSiteConfig(config)

\* The home page: HeroSection under every site configuration.
HeroSpec == Init /\ [][HeroNext]_vars

---------------------------------------------------------------------------
(* Reading a rendered heading *)

RECURSIVE TextOfAll(_)

\* The text inside a node: its own text, then the text of its children, in
\* document order.
TextContent(node) == node.text \o TextOfAll(node.children)

TextOfAll(nodes) ==
    IF nodes = <<>> THEN <<>>
    ELSE TextContent(Head(nodes)) \o TextOfAll(Tail(nodes))

\* The nodes of a given type among the children of a node.
ChildrenOfType(node, type) ==
    { k \in DOMAIN node.children : node.children[k].type = type }

\* The content of a heading: what is inside its link when its only child
\* is a link, what is directly inside it otherwise.
Content(heading) ==
    IF Len(heading.children) = 1 /\ heading.children[1].type = "Link"
    THEN heading.children[1].children
    ELSE heading.children

\* The effect of instance i has run: document.title was assigned.
EffectRan(i) == RunEffect(i) /\ uncaughtError' = "none"

\* Instance i rendered, shows the title t and has no effect pending.
Settled(i, t) ==
    /\ mounted[i]
    /\ props[i].metadata.title = t
    /\ ~effect[i].scheduled

---------------------------------------------------------------------------
(* C1 *)

\* C1: every rendered instance shows exactly one heading: an h1 with the
\* title content directly inside it when isBlogPostPage is true, an h2 whose
\* only child is one link to the permalink, holding the title content, when
\* isBlogPostPage is false.
C1_HeadingShape ==
    \A i \in Instances :
        mounted[i] =>
            LET h == output[i]
                in == props[i]
                content == Children(title(in.metadata.title))
            IN  IF in.isBlogPostPage
                THEN /\ h.type = "h1"
                     /\ h.children = content
                     /\ ChildrenOfType(h, "Link") = {}
                ELSE /\ h.type = "h2"
                     /\ Len(h.children) = 1
                     /\ h.children[1].type = "Link"
                     /\ h.children[1].to = in.metadata.permalink
                     /\ h.children[1].children = content

\* The second example scenario and a post page next to it.
C1_Witness ==
    /\ mounted[1] /\ mounted[2]
    /\ props[1] = [ metadata |-> Metadata(Str(Chars("Branded Types")),
                                           "/articles/branded-types"),
                    isBlogPostPage |-> FALSE, className |-> "" ]
    /\ output[1].type = "h2"
    /\ output[1].children[1].type = "Link"
    /\ output[1].children[1].to = "/articles/branded-types"
    /\ TextContent(output[1]) = Chars("Branded Types")
    /\ props[2].isBlogPostPage
    /\ output[2].type = "h1"
    /\ output[2].children = << Text(Chars("Branded Types")) >>

---------------------------------------------------------------------------
(* C2 *)

\* C2: for every string title other than the special-cased literal, with
\* either page flag, the content of the heading is the raw title as one text
\* and nothing else (no text at all for the empty title).
C2_RawTitleUnchanged ==
    \A i \in Instances :
        (/\ mounted[i]
         /\ props[i].metadata.title.type = "string"
         /\ props[i].metadata.title.chars # SatisfiesLiteral) =>
            /\ TextContent(output[i]) = props[i].metadata.title.chars
            /\ \A k \in DOMAIN Content(output[i]) :
                   Content(output[i])[k] = Text(props[i].metadata.title.chars)

\* Titles that differ from the literal in letter case only and in whitespace
\* only are shown, one per page flag.
C2_Witness ==
    \E i, j \in Instances :
        /\ mounted[i] /\ mounted[j]
        /\ props[i].isBlogPostPage /\ ~props[j].isBlogPostPage
        /\ TextContent(output[i]) =
               Chars("the ") \o <<Backtick>> \o Chars("satisfies")
                   \o <<Backtick>> \o Chars(" operator")
        /\ TextContent(output[j]) =
               Chars("The ") \o <<Backtick>> \o Chars("satisfies")
                   \o <<Backtick>> \o Chars("  Operator")

---------------------------------------------------------------------------
(* C3 *)

\* C3: for the special-cased literal title the content of the heading is
\* the text "The ", then the code element holding "satisfies", then the text
\* " operator", with either page flag.
C3_SatisfiesMarkup ==
    \A i \in Instances :
        (mounted[i] /\ props[i].metadata.title = Str(SatisfiesLiteral)) =>
            LET c == Content(output[i])
            IN  /\ Len(c) = 3
                /\ c[1].type = "#text" /\ c[1].text = Chars("The ")
                /\ c[2].type = "code"
                /\ TextContent(c[2]) = Chars("satisfies")
                /\ c[3].type = "#text" /\ c[3].text = Chars(" operator")

\* C3 as stated: the substituted content is a plain prefix text followed by
\* the code fragment, with nothing after it.
C3_NothingAfterCode ==
    \A i \in Instances :
        (mounted[i] /\ props[i].metadata.title = Str(SatisfiesLiteral)) =>
            LET c == Content(output[i])
            IN  /\ Len(c) = 2
                /\ c[1].type = "#text"
                /\ c[2].type = "code"

\* The special-cased title is shown on a post page and in a list view.
C3_Witness ==
    /\ mounted[1] /\ mounted[2]
    /\ props[1].metadata.title = Str(SatisfiesLiteral)
    /\ props[2].metadata.title = Str(SatisfiesLiteral)
    /\ props[1].isBlogPostPage /\ ~props[2].isBlogPostPage
    /\ TextContent(output[1]) = Chars("The satisfies operator")
    /\ TextContent(output[2]) = Chars("The satisfies operator")

---------------------------------------------------------------------------
(* C4 *)

\* C4: when the effect of a render of the title "The `satisfies` Operator"
\* has run, the document title is "The satisfies Operator" and holds no
\* backtick.
C4_NoBacktickLeft ==
    [][ \A i \in Instances :
          (EffectRan(i) /\ effect[i].rawTitle = Str(SatisfiesLiteral)) =>
              /\ documentTitle' = Chars("The satisfies Operator")
              /\ \A k \in DOMAIN documentTitle' : documentTitle'[k] # Backtick
      ]_vars

---------------------------------------------------------------------------
(* C5 *)

\* s without its k-th character.
Without(s, k) == SubSeq(s, 1, k - 1) \o SubSeq(s, k + 1, Len(s))

\* C5: for the special-cased literal title the effect assigns the raw title
\* with exactly one backtick taken out: one character less, every other
\* character kept in its order.
C5_OneBacktickRemoved ==
    [][ \A i \in Instances :
          (EffectRan(i) /\ effect[i].rawTitle = Str(SatisfiesLiteral)) =>
              \E k \in DOMAIN SatisfiesLiteral :
                  /\ SatisfiesLiteral[k] = Backtick
                  /\ documentTitle' = Without(SatisfiesLiteral, k)
      ]_vars

\* The effect of the special-cased title has run: the first backtick is
\* gone, the second one is still there.
C5_Witness ==
    \E i \in Instances :
        /\ Settled(i, Str(SatisfiesLiteral))
        /\ documentTitle =
               Chars("The satisfies") \o <<Backtick>> \o Chars(" Operator")

---------------------------------------------------------------------------
(* C6 *)

HasBacktick(s) == \E k \in DOMAIN s : s[k] = Backtick

\* C6 as stated: for every string title other than the special-cased
\* literal, the effect assigns the raw title verbatim.
C6_VerbatimUnlessLiteral ==
    [][ \A i \in Instances :
          (/\ EffectRan(i)
           /\ effect[i].rawTitle.type = "string"
           /\ effect[i].rawTitle.chars # SatisfiesLiteral) =>
              documentTitle' = effect[i].rawTitle.chars
      ]_vars

\* C6, amended: for every string title that holds no backtick, the effect
\* assigns the raw title verbatim.
C6_VerbatimWithoutBacktick ==
    [][ \A i \in Instances :
          (/\ EffectRan(i)
           /\ effect[i].rawTitle.type = "string"
           /\ ~HasBacktick(effect[i].rawTitle.chars)) =>
              documentTitle' = effect[i].rawTitle.chars
      ]_vars

\* The first example scenario: the effect of "Branded Types" has run.
C6_Witness ==
    \E i \in Instances :
        /\ Settled(i, Str(Chars("Branded Types")))
        /\ documentTitle = Chars("Branded Types")

---------------------------------------------------------------------------
(* C7 *)

\* Instance i renders again with the raw title of its previous render.
SameTitleRerender(i) ==
    /\ Update(i, props'[i])
    /\ props'[i].metadata.title = props[i].metadata.title

\* C7: a re-render whose raw title equals the one of the previous render
\* leaves no document-title write pending, whatever the title.
C7_NoWriteOnSameTitle ==
    [][ \A i \in Instances :
          SameTitleRerender(i) => ~effect'[i].scheduled
      ]_vars

---------------------------------------------------------------------------
(* C8 *)

\* C8: no render and no effect raises an error, and a heading of an absent
\* or empty title has empty content.
C8_NeverFails ==
    /\ uncaughtError = "none"
    /\ \A i \in Instances :
           (mounted[i] /\ props[i].metadata.title \in {Undefined, Str(<<>>)}) =>
               TextContent(output[i]) = <<>>

---------------------------------------------------------------------------
(* C9 *)

RECURSIVE TitleAfter(_, _)

\* The document title after the pending effects of the instances in order
\* have run one after the other, starting from the document title t.
TitleAfter(order, t) ==
    IF order = <<>> THEN t
    ELSE TitleAfter(Tail(order), EffectValue(effect[Head(order)].rawTitle))

\* C9: when the effects of two instances are pending, the document title
\* they leave is the same in both orders of running them.
C9_OrderIrrelevant ==
    \A i, j \in Instances :
        (/\ i # j
         /\ effect[i].scheduled /\ effect[i].rawTitle.type = "string"
         /\ effect[j].scheduled /\ effect[j].rawTitle.type = "string") =>
            TitleAfter(<<i, j>>, documentTitle)
                = TitleAfter(<<j, i>>, documentTitle)

---------------------------------------------------------------------------
(* C10 *)

\* Instance i renders again with the same raw title, the page flag going
\* from false to true.
FlagTurnsTrue(i) ==
    /\ Update(i, props'[i])
    /\ props'[i].metadata.title = props[i].metadata.title
    /\ ~props[i].isBlogPostPage
    /\ props'[i].isBlogPostPage

\* C10: with the title held fixed, turning the page flag from false to true
\* turns the h2 holding a link into an h1 holding none, and the content of
\* the heading and its text stay what they were.
C10_FlagKeepsText ==
    [][ \A i \in Instances :
          FlagTurnsTrue(i) =>
              /\ output[i].type = "h2" /\ output'[i].type = "h1"
              /\ ChildrenOfType(output[i], "Link") # {}
              /\ ChildrenOfType(output'[i], "Link") = {}
              /\ Content(output'[i]) = Content(output[i])
              /\ TextContent(output'[i]) = TextContent(output[i])
      ]_vars

\* The special-cased title is shown by an h1 without a link and by an h2
\* with one, with the same text.
C10_Witness ==
    \E i, j \in Instances :
        /\ Settled(i, Str(SatisfiesLiteral))
        /\ Settled(j, Str(SatisfiesLiteral))
        /\ output[i].type = "h1" /\ output[j].type = "h2"
        /\ ChildrenOfType(output[i], "Link") = {}
        /\ ChildrenOfType(output[j], "Link") = {1}
        /\ TextContent(output[i]) = TextContent(output[j])
        /\ TextContent(output[i]) # <<>>

---------------------------------------------------------------------------
(* C11 *)

\* C11: two renders with the same title, permalink, page flag and className
\* returned the same element, whatever the document title was and whatever
\* either instance rendered before.
C11_OutputFunctionOfInputs ==
    \A i, j \in Instances :
        (mounted[i] /\ mounted[j] /\ props[i] = props[j]) =>
            output[i] = output[j]

\* Two instances rendered the same inputs at different times: one has its
\* effect still pending, the other has run its own and rendered again, and
\* the document title is no longer the site title.
C11_Witness ==
    \E i, j \in Instances :
        /\ i # j
        /\ mounted[i] /\ mounted[j]
        /\ props[i] = props[j]
        /\ props[i].metadata.title = Str(SatisfiesLiteral)
        /\ effect[i].scheduled /\ effect[i].onMount
        /\ effect[j].scheduled /\ ~effect[j].onMount
        /\ documentTitle # SiteTitle
        /\ output[i] = output[j]

---------------------------------------------------------------------------
(* C12 *)

\* Instance i renders again and commits a raw title that differs from the
\* one of its previous commit.
TitleChangingCommit(i) ==
    /\ Update(i, props'[i])
    /\ props'[i].metadata.title # props[i].metadata.title

\* C12: a commit whose title differs from the one of the previous commit
\* does not assign document.title itself and leaves the write of the new
\* title pending; a pending write ends only by being performed, so that it
\* follows the commit.
C12_WriteFollowsCommit ==
    [][ \A i \in Instances :
          /\ TitleChangingCommit(i) =>
                 /\ documentTitle' = documentTitle
                 /\ effect'[i].scheduled
                 /\ effect'[i].rawTitle = props'[i].metadata.title
          /\ (/\ effect[i].scheduled
              /\ ~effect[i].onMount
              /\ ~effect'[i].scheduled) =>
                 /\ uncaughtError' = "none"
                 /\ documentTitle' = EffectValue(effect[i].rawTitle)
      ]_vars

---------------------------------------------------------------------------
(* C13 *)

\* C13: with an empty title and the page flag true the element is an h1
\* with no content, and its effect assigns the empty string to the document
\* title.
C13_EmptyTitleOnPostPage ==
    [][ \A i \in Instances :
          (/\ EffectRan(i)
           /\ props[i].metadata.title = Str(<<>>)
           /\ props[i].isBlogPostPage) =>
              /\ output[i].type = "h1"
              /\ output[i].children = <<>>
              /\ documentTitle' = <<>>
      ]_vars

\* The fourth example scenario, its effect run.
C13_Witness ==
    \E i \in Instances :
        /\ Settled(i, Str(<<>>))
        /\ props[i].isBlogPostPage
        /\ output[i].type = "h1"
        /\ TextContent(output[i]) = <<>>
        /\ documentTitle = <<>>

---------------------------------------------------------------------------
(* C14 *)

\* Instance i renders: its first render or a later one.
Renders(i) == Mount(i, props'[i]) \/ Update(i, props'[i])

\* C14: a render is handed one of the posts and a page flag as they are and
\* touches neither the inputs of another instance nor the document title; an
\* effect leaves the metadata and the page flag of every instance as they
\* were: the document title is all it writes.
C14_OnlyDocumentTitleWritten ==
    [][ \A i \in Instances :
          /\ Renders(i) =>
                 /\ props'[i] \in Inputs
                 /\ \A j \in Instances \ {i} : props'[j] = props[j]
                 /\ documentTitle' = documentTitle
          /\ RunEffect(i) =>
                 /\ props' = props
                 /\ \A j \in Instances :
                        mounted'[j] => props'[j].metadata \in Posts
      ]_vars

\* An effect has assigned the document title, next to a rendered instance
\* whose effect is pending; both hold posts as published.
C14_Witness ==
    \E i, j \in Instances :
        /\ Settled(i, Str(SatisfiesLiteral))
        /\ documentTitle =
               Chars("The satisfies") \o <<Backtick>> \o Chars(" Operator")
        /\ props[i].metadata = PostPool[2]
        /\ mounted[j] /\ effect[j].scheduled
        /\ props[j].metadata = PostPool[1]

---------------------------------------------------------------------------
(* C15 *)

\* C15: every render of HeroSection returns the element it returns under
\* any other site configuration, and leaves the site configuration and the
\* document title as they were.
C15_HeroStatic ==
    [][ hero' # hero =>
          /\ \A config \in SiteConfigs : hero'.output = HeroSection(config)
          /\ siteConfig' = siteConfig
          /\ documentTitle' = documentTitle
      ]_vars

\* HeroSection rendered under a configuration with an empty site title, and
\* the site has since been given another one: the heading still ends with
\* "Learning TypeScript".
C15_Witness ==
    /\ hero.rendered
    /\ hero.siteConfig.title = ""
    /\ hero.siteConfig.baseUrl = "/learning-typescript/"
    /\ siteConfig # hero.siteConfig
    /\ hero.output.type = "section"
    /\ hero.output.children[1].children[1].children[5].children[1].text
           = "Learning TypeScript"
    /\ documentTitle = SiteTitle

---------------------------------------------------------------------------
(* C16 *)

\* Instance i is the only one that ever rendered, and no effect of it is
\* pending.
OnlyInstanceAtRest(i) ==
    /\ props[i] # NoInputs
    /\ \A j \in Instances \ {i} : props[j] = NoInputs
    /\ ~effect[i].scheduled

\* C16: when a single instance has rendered, whatever its renders were, and
\* none of its effects is pending, the document title is the raw title of its
\* last committed render less its first backtick.
C16_TitleOfLastRender ==
    \A i \in Instances :
        OnlyInstanceAtRest(i) =>
            documentTitle = EffectValue(props[i].metadata.title)

---------------------------------------------------------------------------
(* C17 *)

\* C17: the effect of an instance assigns the raw title of its render less
\* its first backtick to the document title when isBlogPostPage is false as
\* it does when isBlogPostPage is true, and the first render leaves the
\* effect pending with either flag.
C17_WriteWhateverFlag ==
    [][ \A i \in Instances, flag \in BOOLEAN :
          /\ (EffectRan(i) /\ props[i].isBlogPostPage = flag) =>
                 documentTitle' = EffectValue(props[i].metadata.title)
          /\ (Mount(i, props'[i]) /\ props'[i].isBlogPostPage = flag) =>
                 effect'[i].scheduled
      ]_vars

\* A post page shows one title, a list view instance another, and the
\* document title is the one of the list view instance.
C17_Witness ==
    \E i, j \in Instances :
        /\ Settled(i, Str(Chars("Branded Types")))
        /\ ~props[i].isBlogPostPage
        /\ Settled(j, Str(Chars("The satisfies Operator")))
        /\ props[j].isBlogPostPage
        /\ documentTitle = Chars("Branded Types")

---------------------------------------------------------------------------
(* C18 *)

\* Instance i has rendered.
Rendered(i) == props[i] # NoInputs

\* C18: with several instances mounted, whenever the effect of one of them
\* runs, the document title becomes the raw title of that instance less its
\* first backtick, and, the other instances showing other titles, that is
\* the stripped title of exactly one rendered instance.
C18_LastEffectWins ==
    [][ \A i \in Instances :
          (RunEffect(i) /\ \A j \in Instances : mounted[j]) =>
              /\ documentTitle' = EffectValue(props[i].metadata.title)
              /\ (\A j \in Instances \ {i} :
                      Rendered(j) =>
                          props[j].metadata.title # props[i].metadata.title)
                  => Cardinality(
                         { j \in Instances :
                             /\ Rendered(j)
                             /\ EffectValue(props[j].metadata.title)
                                    = documentTitle' }) = 1
      ]_vars

---------------------------------------------------------------------------
(* C19 *)

\* C19: the first render of an instance leaves one effect pending, whatever
\* the title, and that effect ends by assigning the document title once.
C19_OneWriteOnMount ==
    [][ \A i \in Instances :
          /\ Mount(i, props'[i]) =>
                 effect'[i].scheduled /\ effect'[i].onMount
          /\ (/\ effect[i].scheduled
              /\ effect[i].onMount
              /\ effect'[i] # effect[i]) =>
                 /\ uncaughtError' = "none"
                 /\ documentTitle' = EffectValue(effect[i].rawTitle)
                 /\ ~effect'[i].scheduled
      ]_vars

---------------------------------------------------------------------------
(* C20 *)

\* C20: for a title other than the special-cased literal, when the document
\* title is no longer what the instance's effect assigned, a re-render with
\* the same raw title leaves the document title as it is and leaves no
\* effect pending that would restore it.
C20_NotRestored ==
    [][ \A i \in Instances :
          (/\ SameTitleRerender(i)
           /\ props[i].metadata.title # Str(SatisfiesLiteral)
           /\ documentTitle # EffectValue(props[i].metadata.title)) =>
              /\ documentTitle' = documentTitle
              /\ ~effect'[i].scheduled
      ]_vars

\* The effect of "Branded Types" has run and another instance has since
\* overwritten the document title; the first instance renders its title in
\* a list view, with a className, and has no effect pending.
C20_Witness ==
    \E i, j \in Instances :
        /\ Settled(i, Str(Chars("Branded Types")))
        /\ props[i].className = "margin-bottom--sm"
        /\ Settled(j, Str(Chars("The satisfies Operator")))
        /\ documentTitle = Chars("The satisfies Operator")

---------------------------------------------------------------------------
(* C21 *)

\* The last renders of instances i and j differ in the permalink only.
DifferInPermalinkOnly(i, j) ==
    /\ mounted[i] /\ mounted[j]
    /\ props[i].metadata.title = props[j].metadata.title
    /\ props[i].metadata.permalink # props[j].metadata.permalink
    /\ props[i].isBlogPostPage = props[j].isBlogPostPage
    /\ props[i].className = props[j].className

\* C21: two renders that differ in the permalink only returned the same
\* element when isBlogPostPage is true, and once their effects have run the
\* document title is the one either of them assigns.
C21_PermalinkIrrelevant ==
    \A i, j \in Instances :
        DifferInPermalinkOnly(i, j) =>
            /\ props[i].isBlogPostPage => output[i] = output[j]
            /\ (~effect[i].scheduled /\ ~effect[j].scheduled) =>
                   /\ documentTitle = EffectValue(props[i].metadata.title)
                   /\ documentTitle = EffectValue(props[j].metadata.title)

\* "Branded Types" is shown on two post pages under two permalinks, and
\* both effects have run.
C21_Witness ==
    /\ DifferInPermalinkOnly(1, 2)
    /\ props[1].metadata = PostPool[1]
    /\ props[2].metadata = PostPool[8]
    /\ props[1].isBlogPostPage
    /\ ~effect[1].scheduled /\ ~effect[2].scheduled
    /\ output[1] = output[2]
    /\ output[1].type = "h1"
    /\ documentTitle = Chars("Branded Types")

---------------------------------------------------------------------------
(* C22 *)

\* C22: for every title that holds no backtick, the effect assigns to the
\* document title the text that the heading of its render shows.
C22_TitleIsHeadingText ==
    [][ \A i \in Instances :
          (/\ EffectRan(i)
           /\ props[i].metadata.title.type = "string"
           /\ ~HasBacktick(props[i].metadata.title.chars)) =>
              documentTitle' = TextContent(output[i])
      ]_vars

\* The title that is the special-cased literal less its backticks: heading
\* and document title both read "The satisfies Operator".
C22_Witness ==
    \E i \in Instances :
        /\ Settled(i, Str(Chars("The satisfies Operator")))
        /\ TextContent(output[i]) = Chars("The satisfies Operator")
        /\ documentTitle = TextContent(output[i])

=============================================================================
